---- MODULE Spec2Model ----
(***************************************************************************)
(* Model of scaleArt.py: the saved-dimensions store (one JSON file), the   *)
(* dimension operations built on it (each one load -> mutate -> save) and  *)
(* the request handlers that call them.                                    *)
(*                                                                         *)
(* Numbers are fixed-point: a value v stands for the float v / 100000.     *)
(***************************************************************************)
EXTENDS Integers, Sequences, FiniteSets, TLC

\* ------------------------------------------------------------------ bounds

\* Longest collection, and longest order argument, the model explores.
MaxLen == 3

\* ------------------------------------------------------------- data domain

Names == {"a", "b"}
GroupNames == {"Default", "G1", "G2"}

\* A record whose JSON object has no "group" key, resp. has "group": null.
NoGroup == "<missing>"
NullGroup == "<null>"

\* JSON values met in a "value" position of the file (and in form fields):
\* a number, a string that float() parses, a string it rejects, null.
Num(v) == [t |-> "num", v |-> v]
NumStr(v) == [t |-> "numstr", v |-> v]
BadStr == [t |-> "badstr", v |-> 0]
NullVal == [t |-> "null", v |-> 0]

\* Python's float(x): [ok, v]; not ok stands for ValueError / TypeError.
ToFloat(x) ==
  IF x.t \in {"num", "numstr"} THEN [ok |-> TRUE, v |-> x.v]
  ELSE [ok |-> FALSE, v |-> 0]

\* Python's round(x, 2): to the nearest hundredth (1000 units). Half way between
\* two hundredths the float decides: a multiple of 1/8 is exact and goes to the
\* even hundredth; the inputs of this model hold no other half-way value.
Round2(v) ==
  LET q == v \div 1000
      r == v % 1000
  IN  IF r < 500 THEN q * 1000
      ELSE IF r > 500 THEN (q + 1) * 1000
      ELSE IF q % 2 = 0 THEN q * 1000 ELSE (q + 1) * 1000

\* In-memory record (a Python dict with the three keys).
Rec(n, v, g) == [name |-> n, value |-> v, group |-> g]

\* ------------------------------------------------------------ the file

Absent == [kind |-> "absent", data |-> <<>>]
Malformed == [kind |-> "malformed", data |-> <<>>]
LegacyFile(pairs) == [kind |-> "dict", data |-> pairs]
ListFile(items) == [kind |-> "list", data |-> items]

\* load_dimensions, the legacy branch: one record per key, group "Default",
\* a value float() rejects becomes 0.0.
LoadLegacy(pairs) ==
  [i \in 1..Len(pairs) |->
     Rec(pairs[i].name,
         IF ToFloat(pairs[i].value).ok THEN ToFloat(pairs[i].value).v ELSE 0,
         "Default")]

\* load_dimensions, the list branch giving every record the group "Default",
\* as the legacy branch does.
LoadListAllDefault(items) ==
  [i \in 1..Len(items) |->
     Rec(items[i].name,
         IF ToFloat(items[i].value).ok THEN ToFloat(items[i].value).v ELSE 0,
         "Default")]

\* load_dimensions, the list branch: value coerced to float (0.0 on failure),
\* group added only when the key is missing (a null group stays null).
LoadList(items) ==
  [i \in 1..Len(items) |->
     Rec(items[i].name,
         IF ToFloat(items[i].value).ok THEN ToFloat(items[i].value).v ELSE 0,
         IF items[i].group = NoGroup THEN "Default" ELSE items[i].group)]

\* load_dimensions: the collection a handler works on, given the file content.
LoadDimensions(f) ==
  CASE f.kind = "absent" -> <<>>
    [] f.kind = "malformed" -> <<>>
    [] f.kind = "dict" -> LoadLegacy(f.data)
    [] OTHER -> LoadList(f.data)

\* json.dump of the in-memory list: every value is written as a number, every
\* record has its group key.
Serialize(dims) ==
  ListFile([i \in 1..Len(dims) |->
              [name |-> dims[i].name, value |-> Num(dims[i].value),
               group |-> dims[i].group]])

\* The number of decimal digits of n >= 0.
RECURSIVE Digits(_)
Digits(n) == IF n < 10 THEN 1 ELSE 1 + Digits(n \div 10)

\* The digits repr() prints after the point for a fraction f of 100000: all
\* five but the trailing zeros, and at least one.
RECURSIVE FractionDigits(_, _)
FractionDigits(f, width) ==
  IF width = 1 \/ f % 10 # 0 THEN width ELSE FractionDigits(f \div 10, width - 1)

\* The characters json.dump writes for one value, one group and one record.
ValueSize(x) ==
  CASE x.t = "num" ->
         (IF x.v < 0 THEN 1 ELSE 0)
           + Digits((IF x.v < 0 THEN 0 - x.v ELSE x.v) \div 100000) + 1
           + FractionDigits((IF x.v < 0 THEN 0 - x.v ELSE x.v) % 100000, 5)
    [] x.t = "numstr" ->
         Digits(x.v \div 100000) + 1 + FractionDigits(x.v % 100000, 5) + 2
    [] x.t = "badstr" -> Len("abc") + 2
    [] OTHER -> Len("null")

GroupSize(g) ==
  IF g = NoGroup THEN 0
  ELSE Len(", \"group\": ") + (IF g = NullGroup THEN Len("null") ELSE Len(g) + 2)

ItemSize(item) ==
  Len("{\"name\": ") + Len(item.name) + 2
    + Len(", \"value\": ") + ValueSize(item.value)
    + GroupSize(item.group) + Len("}")

RECURSIVE ItemsSize(_)
ItemsSize(items) ==
  IF items = <<>> THEN 0
  ELSE ItemSize(Head(items)) + (IF Len(items) > 1 THEN Len(", ") ELSE 0)
         + ItemsSize(Tail(items))

\* The length in characters of a file json.dump wrote.
FileSize(f) == Len("[") + ItemsSize(f.data) + Len("]")

\* open(DIMENSIONS_FILE, 'w'): the file is cut to nothing, which is not JSON.
Truncated(f) == Malformed

\* json.dump into the opened file and its close: the text goes to the start of
\* the file. The file is empty then, unless another writer filled it since the
\* open; what that writer wrote beyond the end of the new text stays, and the
\* file is no longer JSON.
Written(f, dims) ==
  IF f.kind = "list" /\ FileSize(Serialize(dims)) < FileSize(f)
  THEN Malformed
  ELSE Serialize(dims)

\* ------------------------------------------------- dimension operations
\* Each operation is given the collection load_dimensions returned and yields
\* what it saves (if it saves), what it returns and whether it raised.
\* Indices are Python's (0-based); sequences here are 1-based.

Outcome(wrote, dims, ret, raised) ==
  [wrote |-> wrote, dims |-> dims, ret |-> ret, raised |-> raised]

\* list.pop(index) for 0 <= index < len.
RemoveAt(s, index) ==
  [k \in 1..(Len(s) - 1) |-> IF k <= index THEN s[k] ELSE s[k + 1]]

InBounds(index, dims) == 0 <= index /\ index < Len(dims)

\* add_dimension putting the new record first (insert(0, ..) for append).
AddDimensionPrepends(dims, name, value, group) ==
  IF ~ToFloat(value).ok THEN Outcome(FALSE, dims, "None", TRUE)
  ELSE Outcome(TRUE,
               <<Rec(name, Round2(ToFloat(value).v),
                     IF group = NoGroup THEN "Default" ELSE group)>> \o dims,
               "None", FALSE)

\* add_dimension storing float(value) as it is, without round(.., 2).
AddDimensionUnrounded(dims, name, value, group) ==
  IF ~ToFloat(value).ok THEN Outcome(FALSE, dims, "None", TRUE)
  ELSE Outcome(TRUE,
               Append(dims, Rec(name, ToFloat(value).v,
                                IF group = NoGroup THEN "Default" ELSE group)),
               "None", FALSE)

\* add_dimension(name, value, group='Default'); NoGroup: group not passed.
AddDimension(dims, name, value, group) ==
  IF ~ToFloat(value).ok THEN Outcome(FALSE, dims, "None", TRUE)
  ELSE Outcome(TRUE,
               Append(dims, Rec(name, Round2(ToFloat(value).v),
                                IF group = NoGroup THEN "Default" ELSE group)),
               "None", FALSE)

\* delete_dimension popping the position after index (a 1-based index).
DeleteDimensionOffByOne(dims, index) ==
  IF InBounds(index, dims)
  THEN Outcome(TRUE, RemoveAt(dims, index + 1), "None", FALSE)
  ELSE Outcome(FALSE, dims, "None", FALSE)

\* delete_dimension with save_dimensions outside the bounds test.
DeleteDimensionAlwaysSaves(dims, index) ==
  IF InBounds(index, dims)
  THEN Outcome(TRUE, RemoveAt(dims, index), "None", FALSE)
  ELSE Outcome(TRUE, dims, "None", FALSE)

\* delete_dimension(index)
DeleteDimension(dims, index) ==
  IF InBounds(index, dims)
  THEN Outcome(TRUE, RemoveAt(dims, index), "None", FALSE)
  ELSE Outcome(FALSE, dims, "None", FALSE)

\* rename_dimension renaming the first record whatever the index.
RenameDimensionFirst(dims, index, new_name) ==
  IF InBounds(index, dims)
  THEN Outcome(TRUE, [dims EXCEPT ![1].name = new_name], "None", FALSE)
  ELSE Outcome(FALSE, dims, "None", FALSE)

\* rename_dimension(index, new_name)
RenameDimension(dims, index, new_name) ==
  IF InBounds(index, dims)
  THEN Outcome(TRUE, [dims EXCEPT ![index + 1].name = new_name], "None", FALSE)
  ELSE Outcome(FALSE, dims, "None", FALSE)

\* update_dimension_group writing dimensions[index - 1] (index 0 then reaches
\* the last record).
UpdateDimensionGroupShifted(dims, index, new_group) ==
  IF InBounds(index, dims)
  THEN Outcome(TRUE,
               [dims EXCEPT ![((index - 1) % Len(dims)) + 1].group = new_group],
               "True", FALSE)
  ELSE Outcome(FALSE, dims, "False", FALSE)

\* update_dimension_group(index, new_group)
UpdateDimensionGroup(dims, index, new_group) ==
  IF InBounds(index, dims)
  THEN Outcome(TRUE, [dims EXCEPT ![index + 1].group = new_group], "True", FALSE)
  ELSE Outcome(FALSE, dims, "False", FALSE)

\* reorder_dimensions appending dimensions[k] for the k-th element of the order
\* instead of dimensions[idx].
ReorderDimensionsByPosition(dims, new_order) ==
  IF Len(new_order) # Len(dims) THEN Outcome(FALSE, dims, "False", FALSE)
  ELSE IF \E k \in 1..Len(new_order) : ~InBounds(new_order[k], dims)
       THEN Outcome(FALSE, dims, "False", FALSE)
       ELSE Outcome(TRUE, [k \in 1..Len(new_order) |-> dims[k]], "True", FALSE)

\* reorder_dimensions testing only idx < len(dimensions): a negative index then
\* counts from the end of the list.
ReorderDimensionsNoLowerBound(dims, new_order) ==
  IF Len(new_order) # Len(dims) THEN Outcome(FALSE, dims, "False", FALSE)
  ELSE IF \E k \in 1..Len(new_order) :
            new_order[k] >= Len(dims) \/ new_order[k] < 0 - Len(dims)
       THEN Outcome(FALSE, dims, "False", FALSE)
       ELSE Outcome(TRUE,
                    [k \in 1..Len(new_order) |->
                       dims[(new_order[k] % Len(dims)) + 1]],
                    "True", FALSE)

\* reorder_dimensions with a test for repeated indices after the bounds test
\* (len(set(new_order)) != len(new_order): return False).
ReorderDimensionsRejectsRepeats(dims, new_order) ==
  IF Len(new_order) # Len(dims) THEN Outcome(FALSE, dims, "False", FALSE)
  ELSE IF \E k \in 1..Len(new_order) : ~InBounds(new_order[k], dims)
       THEN Outcome(FALSE, dims, "False", FALSE)
  ELSE IF \E j, k \in 1..Len(new_order) : j # k /\ new_order[j] = new_order[k]
       THEN Outcome(FALSE, dims, "False", FALSE)
       ELSE Outcome(TRUE,
                    [k \in 1..Len(new_order) |-> dims[new_order[k] + 1]],
                    "True", FALSE)

\* reorder_dimensions(new_order)
ReorderDimensions(dims, new_order) ==
  IF Len(new_order) # Len(dims) THEN Outcome(FALSE, dims, "False", FALSE)
  ELSE IF \E k \in 1..Len(new_order) : ~InBounds(new_order[k], dims)
       THEN Outcome(FALSE, dims, "False", FALSE)
       ELSE Outcome(TRUE,
                    [k \in 1..Len(new_order) |-> dims[new_order[k] + 1]],
                    "True", FALSE)

\* The loop of reorder_groups that collects the distinct groups in the order
\* of their first occurrence.
RECURSIVE CollectGroups(_, _)
CollectGroups(dims, current_groups) ==
  IF dims = <<>> THEN current_groups
  ELSE CollectGroups(Tail(dims),
                     IF \E k \in 1..Len(current_groups) :
                          current_groups[k] = Head(dims).group
                     THEN current_groups
                     ELSE Append(current_groups, Head(dims).group))

CurrentGroups(dims) == CollectGroups(dims, <<>>)

\* The inner loop of reorder_groups putting each record in front of the ones
\* already taken.
RECURSIVE OfGroupReversed(_, _)
OfGroupReversed(dims, g) ==
  IF dims = <<>> THEN <<>>
  ELSE IF Head(dims).group = g
       THEN OfGroupReversed(Tail(dims), g) \o <<Head(dims)>>
       ELSE OfGroupReversed(Tail(dims), g)

\* The inner loop of reorder_groups leaving the loop at the first record of
\* the group (a break after the append).
RECURSIVE OfGroupFirstOnly(_, _)
OfGroupFirstOnly(dims, g) ==
  IF dims = <<>> THEN <<>>
  ELSE IF Head(dims).group = g
       THEN <<Head(dims)>>
       ELSE OfGroupFirstOnly(Tail(dims), g)

\* The records of dims whose group is g, in their order in dims.
RECURSIVE OfGroup(_, _)
OfGroup(dims, g) ==
  IF dims = <<>> THEN <<>>
  ELSE IF Head(dims).group = g
       THEN <<Head(dims)>> \o OfGroup(Tail(dims), g)
       ELSE OfGroup(Tail(dims), g)

\* The nested loop of reorder_groups walking new_groups from its end.
RECURSIVE ConcatGroupsBackwards(_, _)
ConcatGroupsBackwards(dims, new_groups) ==
  IF new_groups = <<>> THEN <<>>
  ELSE ConcatGroupsBackwards(dims, Tail(new_groups))
         \o OfGroup(dims, Head(new_groups))

\* The nested loop of reorder_groups: for each group of new_groups in turn,
\* every record of that group.
RECURSIVE ConcatGroups(_, _)
ConcatGroups(dims, new_groups) ==
  IF new_groups = <<>> THEN <<>>
  ELSE OfGroup(dims, Head(new_groups)) \o ConcatGroups(dims, Tail(new_groups))

\* reorder_groups testing only idx >= len(current_groups): a negative index
\* then counts from the end of the group list.
ReorderGroupsNoLowerBound(dims, new_order) ==
  LET current_groups == CurrentGroups(dims) IN
  IF dims = <<>> THEN Outcome(FALSE, dims, "False", FALSE)
  ELSE IF Len(new_order) # Len(current_groups)
       THEN Outcome(FALSE, dims, "False", FALSE)
  ELSE IF \E k \in 1..Len(new_order) :
            new_order[k] >= Len(current_groups)
              \/ new_order[k] < 0 - Len(current_groups)
       THEN Outcome(FALSE, dims, "False", FALSE)
  ELSE LET new_groups ==
             [k \in 1..Len(new_order) |->
                current_groups[(new_order[k] % Len(current_groups)) + 1]]
       IN  Outcome(TRUE, ConcatGroups(dims, new_groups), "True", FALSE)

\* reorder_groups without its first test (if not dimensions: return False).
ReorderGroupsNoEmptyCheck(dims, new_order) ==
  LET current_groups == CurrentGroups(dims) IN
  IF Len(new_order) # Len(current_groups)
  THEN Outcome(FALSE, dims, "False", FALSE)
  ELSE IF \E k \in 1..Len(new_order) :
            new_order[k] < 0 \/ new_order[k] >= Len(current_groups)
       THEN Outcome(FALSE, dims, "False", FALSE)
  ELSE LET new_groups ==
             [k \in 1..Len(new_order) |-> current_groups[new_order[k] + 1]]
       IN  Outcome(TRUE, ConcatGroups(dims, new_groups), "True", FALSE)

\* reorder_groups(new_order)
ReorderGroups(dims, new_order) ==
  LET current_groups == CurrentGroups(dims) IN
  IF dims = <<>> THEN Outcome(FALSE, dims, "False", FALSE)
  ELSE IF Len(new_order) # Len(current_groups)
       THEN Outcome(FALSE, dims, "False", FALSE)
  ELSE IF \E k \in 1..Len(new_order) :
            new_order[k] < 0 \/ new_order[k] >= Len(current_groups)
       THEN Outcome(FALSE, dims, "False", FALSE)
  ELSE LET new_groups ==
             [k \in 1..Len(new_order) |-> current_groups[new_order[k] + 1]]
       IN  Outcome(TRUE, ConcatGroups(dims, new_groups), "True", FALSE)

\* save_dimensions, when the operation reached it; the file is untouched
\* otherwise.
FileAfter(f, out) == IF out.wrote THEN Written(Truncated(f), out.dims) ELSE f

\* ------------------------------------------------------------- inputs

\* Values a caller passes to add (form fields are strings): 3.14159, 3.13862,
\* and a string float() rejects.
AddValues == {NumStr(314159), NumStr(313862), BadStr}

\* Indices and order elements: one below and one above every valid position.
Indices == -1..MaxLen

\* Order arguments of /reorder: every sequence of at most MaxLen indices.
Orders == UNION {[1..n -> Indices] : n \in 0..MaxLen}

\* Order arguments of /reorder_groups: every sequence of indices that is at
\* most as long as there are group names.
GroupOrders == UNION {[1..n -> Indices] : n \in 0..Cardinality(GroupNames)}

\* Contents of the file that this program version did not write: no file,
\* unparseable JSON, the legacy mapping, a hand-edited array.
LegacyFiles ==
  {LegacyFile(<<>>),
   LegacyFile(<<[name |-> "a", value |-> Num(314000)]>>),
   LegacyFile(<<[name |-> "b", value |-> NumStr(314000)],
                [name |-> "a", value |-> Num(314000)]>>)}

HandEditedFiles ==
  {ListFile(<<[name |-> "a", value |-> NumStr(314000), group |-> NoGroup]>>),
   ListFile(<<[name |-> "a", value |-> Num(314000), group |-> "G1"],
              [name |-> "b", value |-> Num(314000), group |-> NoGroup]>>)}

InitFiles == {Absent, Malformed} \cup LegacyFiles \cup HandEditedFiles

\* ------------------------------------------------------------- state

VARIABLES
  file,   \* content of saved_dimensions.json
  resp,   \* the request being answered (what was asked, the file it found,
          \* the answer), or NoResponse while the server waits for a request
  view,   \* the collection on the page the browser shows (index() rendered it)
  th,     \* per request thread: where it is in its handler and what it holds
  writer, \* the thread whose save_dimensions finished last
  page,   \* what the template rendered for the browser: the result block and,
          \* per displayed record, the index its links and forms carry
  base,   \* the collection a run of reorder calls started from
  calls   \* the number of reorder calls of the run so far

vars == <<file, resp, view, th, writer, page, base, calls>>

\* The development server answers each request on a thread of its own; the
\* model runs two requests side by side.
Handlers == {"h1", "h2"}

Request(op, name, value, group, index, order) ==
  [op |-> op, name |-> name, value |-> value, group |-> group,
   index |-> index, order |-> order]

Response(req, pre, out) ==
  [req |-> req, pre |-> pre, ret |-> out.ret, raised |-> out.raised,
   wrote |-> out.wrote, dims |-> out.dims]

NoResponse ==
  Response(Request("none", "", NullVal, NoGroup, 0, <<>>), Absent,
           Outcome(FALSE, <<>>, "None", FALSE))

NoRec == Rec("", 0, NoGroup)

\* No page in the browser yet, or the browser has left it.
NoPage ==
  [on |-> FALSE, shown |-> FALSE, result |-> 0, text |-> 0, items |-> <<>>]

Thread(pc, req, want, grp, snap, out) ==
  [pc |-> pc, req |-> req, want |-> want, grp |-> grp, snap |-> snap, out |-> out]

IdleThread ==
  Thread("idle", Request("none", "", NullVal, NoGroup, 0, <<>>), NoRec, NoGroup,
         <<>>, Outcome(FALSE, <<>>, "None", FALSE))

Init ==
  /\ file \in InitFiles
  /\ resp = NoResponse
  /\ view = <<>>
  /\ th = [h \in Handlers |-> IdleThread]
  /\ writer = "none"
  /\ page = NoPage
  /\ base = <<>>
  /\ calls = 0

\* One request, start to end: load, the operation, save when it saves.
Complete(req, out) ==
  /\ file' = FileAfter(file, out)
  /\ resp' = Response(req, file, out)
  /\ UNCHANGED <<view, th, writer, page, base, calls>>

\* The answer goes out; the server waits for the next request.
Return ==
  /\ resp # NoResponse
  /\ resp' = NoResponse
  /\ UNCHANGED <<file, view, th, writer, page, base, calls>>

Add ==
  /\ resp = NoResponse
  /\ Len(LoadDimensions(file)) < MaxLen
  /\ \E name \in Names, value \in AddValues, group \in GroupNames \cup {NoGroup} :
       Complete(Request("add", name, value, group, 0, <<>>),
                AddDimension(LoadDimensions(file), name, value, group))

Delete ==
  /\ resp = NoResponse
  /\ \E index \in Indices :
       Complete(Request("delete", "", NullVal, NoGroup, index, <<>>),
                DeleteDimension(LoadDimensions(file), index))

Rename ==
  /\ resp = NoResponse
  /\ \E index \in Indices, new_name \in Names :
       Complete(Request("rename", new_name, NullVal, NoGroup, index, <<>>),
                RenameDimension(LoadDimensions(file), index, new_name))

UpdateGroup ==
  /\ resp = NoResponse
  /\ \E index \in Indices, new_group \in GroupNames :
       Complete(Request("update_group", "", NullVal, new_group, index, <<>>),
                UpdateDimensionGroup(LoadDimensions(file), index, new_group))

\* The /reorder handler: success is what reorder_dimensions returned.
\* A body without an order is answered success=false at once.
Reorder ==
  /\ resp = NoResponse
  /\ \/ \E order \in Orders :
          Complete(Request("reorder", "", NullVal, NoGroup, 0, order),
                   ReorderDimensions(LoadDimensions(file), order))
     \/ Complete(Request("reorder_no_order", "", NullVal, NoGroup, 0, <<>>),
                 Outcome(FALSE, <<>>, "False", FALSE))

\* The /reorder_groups handler. An order that repeats a group index repeats
\* that group's records, so the collection can grow: the model stops at MaxLen.
ReorderGroupsRoute ==
  /\ resp = NoResponse
  /\ \/ \E order \in GroupOrders :
          /\ Len(ReorderGroups(LoadDimensions(file), order).dims) <= MaxLen
          /\ Complete(Request("reorder_groups", "", NullVal, NoGroup, 0, order),
                      ReorderGroups(LoadDimensions(file), order))
     \/ Complete(Request("reorder_groups_no_order", "", NullVal, NoGroup, 0, <<>>),
                 Outcome(FALSE, <<>>, "False", FALSE))

Next ==
  \/ Add
  \/ Delete
  \/ Rename
  \/ UpdateGroup
  \/ Reorder
  \/ ReorderGroupsRoute
  \/ Return

Spec == Init /\ [][Next]_vars

\* ------------------------------------------ requests running side by side
\* The same handlers, one step per file access: the load, then the two halves
\* of save_dimensions (open(..., 'w') empties the file, json.dump and the close
\* fill it).  Nothing in the code orders the steps of two requests.

\* The script's order after one drag and drop: the list 0..n-1 with the entry
\* at from_index spliced out and put back at to_index.
Move(n, from_index, to_index) ==
  LET without == [k \in 1..(n - 1) |-> IF k - 1 < from_index THEN k - 1 ELSE k]
  IN  [k \in 1..n |->
         IF k - 1 < to_index THEN without[k]
         ELSE IF k - 1 = to_index THEN from_index
         ELSE without[k - 1]]

DragOrders(n) ==
  {Move(n, f, t) : f \in 0..(n - 1), t \in 0..(n - 1)} \ {[k \in 1..n |-> k - 1]}

\* What the page offers: the forms, and per displayed record the links and
\* forms that carry its index.
PageRequests ==
  {Request("add", name, value, group, 0, <<>>) :
     name \in Names, value \in AddValues, group \in GroupNames}
  \cup {Request("rename", new_name, NullVal, NoGroup, index, <<>>) :
          new_name \in Names, index \in 0..(Len(view) - 1)}
  \cup {Request("update_group", "", NullVal, new_group, index, <<>>) :
          new_group \in GroupNames, index \in 0..(Len(view) - 1)}
  \cup {Request("reorder", "", NullVal, NoGroup, 0, order) :
          order \in DragOrders(Len(view))}
  \cup {Request("reorder_groups", "", NullVal, NoGroup, 0, order) :
          order \in DragOrders(Len(CurrentGroups(view)))}

\* The operation a request runs, on the collection it loaded.
Apply(req, dims) ==
  CASE req.op = "add" -> AddDimension(dims, req.name, req.value, req.group)
    [] req.op = "delete" -> DeleteDimension(dims, req.index)
    [] req.op = "rename" -> RenameDimension(dims, req.index, req.name)
    [] req.op = "update_group" -> UpdateDimensionGroup(dims, req.index, req.group)
    [] req.op = "reorder" -> ReorderDimensions(dims, req.order)
    [] OTHER -> ReorderGroups(dims, req.order)

\* The record the user sees at the index the request carries.
Wanted(req) ==
  IF req.op \in {"delete", "rename", "update_group"} /\ InBounds(req.index, view)
  THEN view[req.index + 1] ELSE NoRec

\* A thread after the load of its operation: it goes on to save, or is done.
Loaded(req, want, grp, dims) ==
  Thread(IF Apply(req, dims).wrote THEN "open" ELSE "done",
         req, want, grp, dims, Apply(req, dims))

\* GET /: index() loads the collection and renders it.
IndexPage ==
  /\ view # LoadDimensions(file)
  /\ view' = LoadDimensions(file)
  /\ UNCHANGED <<file, resp, th, writer, page, base, calls>>

\* A request other than /delete arrives; its operation loads the collection.
Start(h) ==
  /\ th[h].pc = "idle"
  /\ \E req \in PageRequests :
       /\ Len(Apply(req, LoadDimensions(file)).dims) <= MaxLen
       /\ th' = [th EXCEPT ![h] = Loaded(req, Wanted(req), NoGroup,
                                         LoadDimensions(file))]
  /\ UNCHANGED <<file, resp, view, writer, page, base, calls>>

\* /delete/<index> arrives; the handler loads the collection to look up the
\* record's group before it calls delete_dimension.
DeleteLookup(h) ==
  /\ th[h].pc = "idle"
  /\ \E index \in 0..(Len(view) - 1) :
       LET req == Request("delete", "", NullVal, NoGroup, index, <<>>)
           dimensions == LoadDimensions(file)
       IN  th' = [th EXCEPT ![h] =
                    Thread("call", req, Wanted(req),
                           IF InBounds(index, dimensions)
                           THEN dimensions[index + 1].group ELSE NoGroup,
                           <<>>, Outcome(FALSE, <<>>, "None", FALSE))]
  /\ UNCHANGED <<file, resp, view, writer, page, base, calls>>

\* delete_dimension: its own load, then the pop.
DeleteCall(h) ==
  /\ th[h].pc = "call"
  /\ th' = [th EXCEPT ![h] = Loaded(th[h].req, th[h].want, th[h].grp,
                                    LoadDimensions(file))]
  /\ UNCHANGED <<file, resp, view, writer, page, base, calls>>

\* save_dimensions, open(DIMENSIONS_FILE, 'w').
OpenFile(h) ==
  /\ th[h].pc = "open"
  /\ file' = Truncated(file)
  /\ th' = [th EXCEPT ![h].pc = "dump"]
  /\ UNCHANGED <<resp, view, writer, page, base, calls>>

\* save_dimensions, json.dump and the close.
DumpFile(h) ==
  /\ th[h].pc = "dump"
  /\ file' = Written(file, th[h].out.dims)
  /\ th' = [th EXCEPT ![h].pc = "done"]
  /\ writer' = h
  /\ UNCHANGED <<resp, view, page, base, calls>>

NextConc ==
  \/ IndexPage
  \/ \E h \in Handlers : Start(h)
  \/ \E h \in Handlers : DeleteLookup(h)
  \/ \E h \in Handlers : DeleteCall(h)
  \/ \E h \in Handlers : OpenFile(h)
  \/ \E h \in Handlers : DumpFile(h)

SpecConc == Init /\ [][NextConc]_vars

\* ------------------------------------------- one browser, a file of any kind
\* The page index() renders and the requests a user sends from it, one after
\* the other, on a file this program version need not have written.

\* Longest collection a browser session builds.
MaxRaw == 2

\* math.sqrt(2), in units of 1e-5.
Sqrt2 == 141421

\* number * sqrt2 for number >= 0, to the nearest unit; the product is taken
\* in two parts so that no intermediate value leaves 32 bits.
TimesSqrt2(number) ==
  LET high == (number \div 1000) * Sqrt2
      low == (number % 1000) * Sqrt2
  IN  (high \div 100) + (((high % 100) * 1000 + low + 50000) \div 100000)

\* get_groups: sorted() cannot order None and a string (TypeError), so a
\* collection that holds a null group beside a named one has no group list.
GetGroupsRaises(dims) ==
  /\ \E k \in 1..Len(dims) : dims[k].group = NullGroup
  /\ \E k \in 1..Len(dims) : dims[k].group # NullGroup

\* list.index(x): the first position that holds a record equal to x.
ListIndex(dims, x) ==
  (CHOOSE k \in 1..Len(dims) :
     dims[k] = x /\ \A j \in 1..(k - 1) : dims[j] # x) - 1

\* The records in the order the template shows them: grouped, the groups in
\* the order of their first record.
TemplateItems(dims) == ConcatGroups(dims, CurrentGroups(dims))

\* The dimension list of the page: per displayed record, the index the
\* template computes for it.
Items(dims) ==
  [k \in 1..Len(dims) |->
     [index |-> ListIndex(dims, TemplateItems(dims)[k]),
      rec |-> TemplateItems(dims)[k]]]

\* The page for a request to / with the given number field (NullVal: a GET).
\* result stays None unless float() took the field; the template puts the
\* result block and its save form under "if result".
Render(dims, number) ==
  LET computed == number # NullVal /\ ToFloat(number).ok
      result == IF computed THEN TimesSqrt2(ToFloat(number).v) ELSE 0
  IN  [on |-> TRUE,
       shown |-> computed /\ result # 0,
       result |-> result,
       text |-> Round2(result),
       items |-> Items(dims)]

\* load_dimensions writing the upgraded collection back to the file.
FileAfterLoadNormalized(f) ==
  IF f.kind \in {"dict", "list"} THEN Serialize(LoadDimensions(f)) ELSE f

\* The file after load_dimensions: it is opened for reading only.
FileAfterLoad(f) == f

\* The number field of a request to /: none (GET), "0", "5", "abc".
NumberInputs == {NullVal, NumStr(0), NumStr(500000), BadStr}

\* File contents a session may start from, beside the ones a save leaves.
RawFiles ==
  {Absent, Malformed,
   LegacyFile(<<[name |-> "a", value |-> BadStr]>>),
   LegacyFile(<<[name |-> "b", value |-> Num(314000)],
                [name |-> "a", value |-> NullVal]>>),
   ListFile(<<[name |-> "a", value |-> NumStr(314000), group |-> NoGroup]>>),
   ListFile(<<[name |-> "a", value |-> Num(314000), group |-> NullGroup]>>),
   ListFile(<<[name |-> "a", value |-> BadStr, group |-> "G1"],
              [name |-> "b", value |-> Num(314000), group |-> NoGroup]>>),
   ListFile(<<[name |-> "b", value |-> Num(314000), group |-> NullGroup],
              [name |-> "b", value |-> Num(314000), group |-> "G2"]>>)}

InitRaw ==
  /\ file \in RawFiles
  /\ resp = NoResponse
  /\ view = <<>>
  /\ th = [h \in Handlers |-> IdleThread]
  /\ writer = "none"
  /\ page = NoPage
  /\ base = <<>>
  /\ calls = 0

\* index(): load, get_groups, the product when a number was posted, the page.
IndexRoute ==
  /\ \E number \in NumberInputs :
       LET dimensions == LoadDimensions(file)
           req == Request(IF number = NullVal THEN "get" ELSE "post",
                          "", number, NoGroup, 0, <<>>)
       IN  IF GetGroupsRaises(dimensions)
           THEN /\ resp' = Response(req, file,
                                    Outcome(FALSE, dimensions, "None", TRUE))
                /\ view' = <<>>
                /\ page' = NoPage
           ELSE /\ resp' = Response(req, file,
                                    Outcome(FALSE, dimensions, "None", FALSE))
                /\ view' = dimensions
                /\ page' = Render(dimensions, number)
  /\ file' = FileAfterLoad(file)
  /\ UNCHANGED <<th, writer, base, calls>>

\* What the user can send from the page: the save form of the result block
\* (its hidden value field holds the result), and per displayed record the
\* delete link, the rename and group forms and the drops, each with the index
\* the page attached to the record.
SessionRequests ==
  {Request("add", name, NumStr(page.result), group, 0, <<>>) :
     name \in IF page.shown THEN Names ELSE {}, group \in GroupNames}
  \cup {Request("delete", "", NullVal, NoGroup, page.items[k].index, <<>>) :
          k \in DOMAIN page.items}
  \cup {Request("rename", new_name, NullVal, NoGroup, page.items[k].index, <<>>) :
          new_name \in Names, k \in DOMAIN page.items}
  \cup {Request("update_group", "", NullVal, new_group, page.items[k].index, <<>>) :
          new_group \in GroupNames, k \in DOMAIN page.items}
  \cup {Request("reorder", "", NullVal, NoGroup, 0,
                Move(Len(page.items), page.items[d[1]].index,
                     page.items[d[2]].index)) :
          d \in {e \in (DOMAIN page.items) \X (DOMAIN page.items) : e[1] # e[2]}}
  \cup {Request("reorder_groups", "", NullVal, NoGroup, 0, order) :
          order \in DragOrders(Len(CurrentGroups(view)))}

\* The user sends one request from the page; the browser leaves the page.
Submit ==
  /\ page.on
  /\ \E req \in SessionRequests :
       /\ Len(Apply(req, LoadDimensions(file)).dims) <= MaxRaw
       /\ file' = FileAfter(file, Apply(req, LoadDimensions(file)))
       /\ resp' = Response(req, file, Apply(req, LoadDimensions(file)))
  /\ view' = <<>>
  /\ page' = NoPage
  /\ UNCHANGED <<th, writer, base, calls>>

NextRaw ==
  \/ IndexRoute
  \/ Submit

SpecRaw == InitRaw /\ [][NextRaw]_vars

\* ------------------------------------------------ a run of reorder calls
\* reorder_dimensions and reorder_groups called one after the other, each with
\* an order that repeats no index, on a collection that adds have built.

\* Longest run of reorder calls.
MaxCalls == 3

\* The records add_dimension stores for the values of this model.
AddedRecords == {Rec(n, 314000, g) : n \in Names, g \in GroupNames}

\* The files a save leaves for collections of at most MaxLen such records.
SavedFiles ==
  {Serialize(dims) : dims \in UNION {[1..n -> AddedRecords] : n \in 0..MaxLen}}

NoRepeat(order) ==
  \A j, k \in 1..Len(order) : j # k => order[j] # order[k]

\* The order arguments of n indices that repeat no index, per n: every index
\* of such an order that reorder_dimensions or reorder_groups accepts is below
\* its length.
OrdersNoRepeat ==
  [n \in 0..MaxLen |-> {order \in [1..n -> 0..(MaxLen - 1)] : NoRepeat(order)}]

InitReorder ==
  /\ file \in SavedFiles
  /\ resp = NoResponse
  /\ view = <<>>
  /\ th = [h \in Handlers |-> IdleThread]
  /\ writer = "none"
  /\ page = NoPage
  /\ base = LoadDimensions(file)
  /\ calls = 0

\* One more call of the run returned True and saved.
Called(out) ==
  /\ calls < MaxCalls
  /\ out.ret = "True"
  /\ file' = FileAfter(file, out)
  /\ calls' = calls + 1
  /\ UNCHANGED <<resp, view, th, writer, page, base>>

ReorderCall ==
  \E order \in OrdersNoRepeat[Len(LoadDimensions(file))] :
    Called(ReorderDimensions(LoadDimensions(file), order))

ReorderGroupsCall ==
  \E order \in OrdersNoRepeat[Len(CurrentGroups(LoadDimensions(file)))] :
    Called(ReorderGroups(LoadDimensions(file), order))

NextReorder ==
  \/ ReorderCall
  \/ ReorderGroupsCall

SpecReorder == InitReorder /\ [][NextReorder]_vars

\* ------------------------------------------------------------- properties

\* The collection the answered request found, and the one now persisted.
Old == LoadDimensions(resp.pre)
New == LoadDimensions(file)

\* resp.req.order is a sequence of n indices, each in 0..n-1.
ValidOrderFor(n) ==
  /\ Len(resp.req.order) = n
  /\ \A k \in 1..n : resp.req.order[k] \in 0..(n - 1)

\* C1: reorderDimensions with an order of the collection's length whose elements
\* are all in 0..n-1 returns true and persists new[i] = old[newOrder[i]].
C1_ReorderByIndex ==
  (resp.req.op = "reorder" /\ ValidOrderFor(Len(Old)))
    => /\ resp.ret = "True"
       /\ file.kind = "list"
       /\ Len(New) = Len(Old)
       /\ \A i \in 0..(Len(Old) - 1) : New[i + 1] = Old[resp.req.order[i + 1] + 1]

\* [2,0,1] on three records that are not all equal has been applied.
C1_Witness ==
  /\ resp.req.op = "reorder"
  /\ resp.req.order = <<2, 0, 1>>
  /\ Len(Old) = 3
  /\ Old[1] # Old[3]
  /\ New = <<Old[3], Old[1], Old[2]>>

\* C2: reorderDimensions with an order of another length, or with an index
\* outside 0..n-1 at any position, returns false (the handler answers
\* success=false) and writes nothing: the file is what it was.
C2_ReorderRejects ==
  (resp.req.op = "reorder" /\ ~ValidOrderFor(Len(Old)))
    => /\ resp.ret = "False"
       /\ ~resp.wrote
       /\ file = resp.pre

\* An order that is wrong only in its last index was rejected, on a legacy file
\* that a write would have converted.
C2_Witness ==
  /\ resp.req.op = "reorder"
  /\ resp.pre.kind = "dict"
  /\ Len(Old) = 2
  /\ resp.req.order = <<1, 2>>
  /\ file = resp.pre

\* The positions of s, ascending, as a sequence.
Ascending(S) ==
  [k \in 1..Cardinality(S) |-> CHOOSE p \in S : Cardinality({q \in S : q < p}) = k - 1]

\* The distinct groups of dims, ordered by the position of their first record.
FirstOccurrenceGroups(dims) ==
  LET firsts == {p \in 1..Len(dims) :
                   \A q \in 1..(p - 1) : dims[q].group # dims[p].group}
  IN  [k \in 1..Cardinality(firsts) |-> dims[Ascending(firsts)[k]].group]

\* The records of dims in group g, in the order they have in dims.
Block(dims, g) ==
  LET members == {p \in 1..Len(dims) : dims[p].group = g}
  IN  [k \in 1..Cardinality(members) |-> dims[Ascending(members)[k]]]

\* Block(dims, groups[1]) \o ... \o Block(dims, groups[Len(groups)])
RECURSIVE Blocks(_, _)
Blocks(dims, groups) ==
  IF groups = <<>> THEN <<>>
  ELSE Block(dims, Head(groups)) \o Blocks(dims, Tail(groups))

IsPermutation(order, n) ==
  /\ Len(order) = n
  /\ \A j \in 0..(n - 1) : \E k \in 1..n : order[k] = j

\* C3: reorderGroups on a non-empty collection with a permutation of the group
\* indices returns true and persists, for each group in the new order in turn,
\* all the records of that group in the order they had.
C3_ReorderGroupsBlocks ==
  LET G == FirstOccurrenceGroups(Old) IN
  (resp.req.op = "reorder_groups" /\ Old # <<>>
     /\ IsPermutation(resp.req.order, Len(G)))
    => /\ resp.ret = "True"
       /\ file.kind = "list"
       /\ New = Blocks(Old, [i \in 1..Len(G) |-> G[resp.req.order[i] + 1]])

\* Groups found in the order Default, G1, G2 and reordered by [1,0,2].
C3_Witness ==
  /\ resp.req.op = "reorder_groups"
  /\ resp.req.order = <<1, 0, 2>>
  /\ FirstOccurrenceGroups(Old) = <<"Default", "G1", "G2">>
  /\ [i \in 1..3 |-> New[i].group] = <<"G1", "Default", "G2">>

\* C4: reorderGroups returns false and writes nothing when the collection is
\* empty, the order's length is not the number of distinct groups, or an index
\* is outside 0..|G|-1.
C4_ReorderGroupsFailsClosed ==
  LET nG == Len(FirstOccurrenceGroups(Old)) IN
  (resp.req.op = "reorder_groups" /\ (Old = <<>> \/ ~ValidOrderFor(nG)))
    => /\ resp.ret = "False"
       /\ ~resp.wrote
       /\ file = resp.pre

\* Two groups, an order of the right length with the index 2: rejected, the
\* hand-edited file left as it was.
C4_Witness ==
  /\ resp.req.op = "reorder_groups"
  /\ Len(FirstOccurrenceGroups(Old)) = 2
  /\ resp.req.order = <<0, 2>>
  /\ resp.ret = "False"
  /\ file = resp.pre

\* C7: delete(index) with 0 <= index < n removes exactly the record at that
\* position: n-1 records remain, the others unchanged and in the same order.
C7_DeleteRemovesOne ==
  (resp.req.op = "delete" /\ InBounds(resp.req.index, Old))
    => /\ file.kind = "list"
       /\ Len(New) = Len(Old) - 1
       /\ New = SubSeq(Old, 1, resp.req.index)
                  \o SubSeq(Old, resp.req.index + 2, Len(Old))

\* The middle one of three records, different from its successor, was deleted.
C7_Witness ==
  /\ resp.req.op = "delete"
  /\ resp.req.index = 1
  /\ Len(Old) = 3
  /\ Old[2] # Old[3]
  /\ New = <<Old[1], Old[3]>>

IndexedOps == {"delete", "rename", "update_group"}

\* C8: delete, rename and updateGroup with an index < 0 or >= the length write
\* nothing and raise nothing, whatever form the file has; updateGroup returns
\* false.
C8_OutOfBoundsIgnored ==
  (resp.req.op \in IndexedOps /\ ~InBounds(resp.req.index, Old))
    => /\ file = resp.pre
       /\ ~resp.wrote
       /\ ~resp.raised
       /\ (resp.req.op = "update_group" => resp.ret = "False")

\* A delete one past the end of a legacy file that holds records left it a
\* legacy file.
C8_Witness ==
  /\ resp.req.op = "delete"
  /\ resp.pre.kind = "dict"
  /\ Len(Old) = 2
  /\ resp.req.index = 2
  /\ file.kind = "dict"

\* C9: rename and updateGroup with an index in bounds change, in place, the
\* name (the group) of the record at that index and nothing else; updateGroup
\* returns true.
C9_InPlaceUpdate ==
  LET i == resp.req.index + 1 IN
  (resp.req.op \in {"rename", "update_group"} /\ InBounds(resp.req.index, Old))
    => /\ file.kind = "list"
       /\ Len(New) = Len(Old)
       /\ \A k \in 1..Len(Old) : k # i => New[k] = Old[k]
       /\ New[i].value = Old[i].value
       /\ resp.req.op = "rename"
            => New[i].name = resp.req.name /\ New[i].group = Old[i].group
       /\ resp.req.op = "update_group"
            => /\ New[i].group = resp.req.group
               /\ New[i].name = Old[i].name
               /\ resp.ret = "True"

\* The second of three records got a new name; the first has another name.
C9_Witness ==
  /\ resp.req.op = "rename"
  /\ resp.req.index = 1
  /\ Len(Old) = 3
  /\ Old[2].name # resp.req.name
  /\ Old[1].name # resp.req.name
  /\ New[2].name = resp.req.name

\* w is v rounded to two decimals: a whole number of hundredths, none nearer.
IsRounded2(w, v) ==
  /\ w % 1000 = 0
  /\ 2 * (w - v) <= 1000
  /\ 2 * (v - w) <= 1000

\* C10: add(name, value, group) with a numeric value persists the collection it
\* found followed by one record {name, value rounded to 2 decimals, group},
\* the group being "Default" when none is given.
C10_AddAppends ==
  (resp.req.op = "add" /\ ToFloat(resp.req.value).ok)
    => /\ file.kind = "list"
       /\ Len(New) = Len(Old) + 1
       /\ SubSeq(New, 1, Len(Old)) = Old
       /\ New[Len(New)].name = resp.req.name
       /\ IsRounded2(New[Len(New)].value, resp.req.value.v)
       /\ New[Len(New)].group =
            (IF resp.req.group = NoGroup THEN "Default" ELSE resp.req.group)

\* add("a", 3.14159, "G1") after one record: the last record has 3.14 and G1.
C10_Witness ==
  /\ resp.req.op = "add"
  /\ resp.req.value = NumStr(314159)
  /\ resp.req.group = "G1"
  /\ Len(Old) = 1
  /\ New[2] = Rec(resp.req.name, 314000, "G1")

\* Both threads ran add on the same loaded collection and have saved; late
\* saved last.
BothAdded(early, late) ==
  /\ early # late
  /\ th[early].pc = "done" /\ th[late].pc = "done"
  /\ th[early].req.op = "add" /\ th[late].req.op = "add"
  /\ th[early].out.wrote /\ th[late].out.wrote
  /\ th[early].snap = th[late].snap
  /\ writer = late

\* C5: lost update. Two adds that loaded the same collection and both saved
\* leave that collection plus the record of the later save only (or, when the
\* two saves overlapped, a file that is not JSON): never both records.
C5_LostUpdate ==
  \A early \in Handlers, late \in Handlers :
    BothAdded(early, late)
      => IF file.kind = "list"
         THEN /\ Len(New) = Len(th[late].snap) + 1
              /\ SubSeq(New, 1, Len(th[late].snap)) = th[late].snap
              /\ New[Len(New)].name = th[late].req.name
              /\ New[Len(New)].group = th[late].req.group
         ELSE file = Malformed

\* Two adds of different names on a non-empty collection, one after the other
\* on disk: the file holds the later record and not the earlier one.
C5_Witness ==
  \E early \in Handlers, late \in Handlers :
    /\ BothAdded(early, late)
    /\ th[early].req.name # th[late].req.name
    /\ th[late].snap # <<>>
    /\ file.kind = "list"
    /\ Len(New) = Len(th[late].snap) + 1
    /\ \A k \in 1..Len(New) : New[k].name # th[early].req.name

\* What an indexed operation saves when it found dims and was given index.
IndexedEffect(req, dims) ==
  CASE req.op = "delete" ->
         SubSeq(dims, 1, req.index) \o SubSeq(dims, req.index + 2, Len(dims))
    [] req.op = "rename" -> [dims EXCEPT ![req.index + 1].name = req.name]
    [] OTHER -> [dims EXCEPT ![req.index + 1].group = req.group]

\* C6: an index designates a position, not a record. delete, rename and
\* updateGroup act on whatever stands at the index in the collection they load
\* themselves (on nothing when the index is past its end), whichever record
\* the page showed at that index.
C6_IndexIsPosition ==
  \A h \in Handlers :
    (th[h].pc = "done" /\ th[h].req.op \in IndexedOps)
      => IF InBounds(th[h].req.index, th[h].snap)
         THEN /\ th[h].out.wrote
              /\ th[h].out.dims = IndexedEffect(th[h].req, th[h].snap)
         ELSE ~th[h].out.wrote

\* The page showed record r at the index of a /delete link; another request
\* was saved in between; the delete removed another record and every copy of r
\* is still persisted.
C6_Witness ==
  \E h \in Handlers :
    /\ th[h].pc = "done"
    /\ th[h].req.op = "delete"
    /\ th[h].want # NoRec
    /\ InBounds(th[h].req.index, th[h].snap)
    /\ th[h].snap[th[h].req.index + 1] # th[h].want
    /\ writer = h
    /\ file.kind = "list"
    /\ \E k \in 1..Len(New) : New[k] = th[h].want
    /\ Cardinality({k \in 1..Len(New) : New[k] = th[h].want})
         = Cardinality({k \in 1..Len(th[h].snap) : th[h].snap[k] = th[h].want})

\* ------------------------------------------------ the file as load finds it

\* C11: every record of every collection load_dimensions returns has a group
\* that is not null, for any parseable file content (legacy mapping or array
\* of records, a record with "group": null included) and after any sequence
\* of operations.
C11_GroupNeverNull ==
  resp.req.op \in {"get", "post"} =>
    \A k \in 1..Len(resp.dims) : resp.dims[k].group \notin {NullGroup, NoGroup}

\* C12: save_dimensions(R) followed by load_dimensions() returns R: the same
\* length, the same records (name, value, group) in the same order.
C12_RoundTrip ==
  resp.wrote =>
    /\ Len(LoadDimensions(file)) = Len(resp.dims)
    /\ \A k \in 1..Len(resp.dims) :
         /\ LoadDimensions(file)[k].name = resp.dims[k].name
         /\ LoadDimensions(file)[k].value = resp.dims[k].value
         /\ LoadDimensions(file)[k].group = resp.dims[k].group

\* Two records that differ in name, value and group were saved.
C12_Witness ==
  /\ resp.wrote
  /\ Len(resp.dims) = 2
  /\ resp.dims[1].name # resp.dims[2].name
  /\ resp.dims[1].value # resp.dims[2].value
  /\ resp.dims[1].group # resp.dims[2].group
  /\ resp.dims[2].group # "Default"
  /\ LoadDimensions(file) = resp.dims

\* C13: load_dimensions never writes the file. Whatever the file holds (no
\* file, malformed JSON, the legacy mapping, an array of records), its content
\* after the load is its content before; float coercion, group backfill and
\* the legacy upgrade are in the returned collection only; and a second load
\* right after returns the same collection.
C13_LoadIsReadOnly ==
  resp.req.op \in {"get", "post"} =>
    /\ file = resp.pre
    /\ LoadDimensions(file) = resp.dims

\* A hand-edited array was loaded: the returned collection has 0.0 for the
\* value float() rejects and "Default" for the missing group, the file has not.
C13_Witness ==
  /\ resp.req.op = "get"
  /\ file.kind = "list"
  /\ Len(file.data) = 2
  /\ file.data[1].value = BadStr
  /\ file.data[2].group = NoGroup
  /\ resp.dims[1].value = 0
  /\ resp.dims[2].group = "Default"

\* ------------------------------------------------------- a malformed file

\* C14: when the file holds malformed JSON, load_dimensions returns the empty
\* collection without an error and leaves the file alone. The file is first
\* overwritten by the next operation that saves, and what that operation saves
\* is computed from the empty collection: an add leaves exactly its one
\* record; delete, rename, update_group, reorder_dimensions with a non-empty
\* order and reorder_groups do not write.
C14_MalformedReadsEmpty ==
  resp.pre = Malformed =>
    /\ resp.req.op = "add" /\ ToFloat(resp.req.value).ok =>
         /\ ~resp.raised
         /\ file.kind = "list"
         /\ New = <<Rec(resp.req.name, Round2(ToFloat(resp.req.value).v),
                        IF resp.req.group = NoGroup THEN "Default"
                        ELSE resp.req.group)>>
    /\ resp.req.op = "add" /\ ~ToFloat(resp.req.value).ok => file = Malformed
    /\ resp.req.op \in {"delete", "rename", "update_group", "reorder_groups"} =>
         ~resp.raised /\ ~resp.wrote /\ file = Malformed
    /\ resp.req.op = "reorder" /\ resp.req.order # <<>> =>
         ~resp.raised /\ ~resp.wrote /\ resp.ret = "False" /\ file = Malformed
    /\ resp.req.op = "reorder" /\ resp.req.order = <<>> =>
         ~resp.raised /\ file = Serialize(<<>>)

\* An add found the malformed file and left a file with its one record.
C14_Witness ==
  /\ resp.pre = Malformed
  /\ resp.req.op = "add"
  /\ file.kind = "list"
  /\ Len(New) = 1

\* ------------------------------------------------------- repeated indices

\* Some index occurs at two places of the order.
HasRepeat(order) ==
  \E j, k \in 1..Len(order) : j # k /\ order[j] = order[k]

\* The places of s that hold the record r.
PlacesOf(s, r) == {k \in 1..Len(s) : s[k] = r}

\* C15: reorder_dimensions does not look for repeated indices. An order of the
\* collection's length with every index in bounds and some index repeated is
\* accepted (True) and a collection of the same length is saved, built from the
\* old one by index: the record at a repeated index is in it more than once,
\* and some old position is taken by no place of the new collection, so that
\* when the old records were all different one of them is gone.
C15_RepeatsAccepted ==
  (/\ resp.req.op = "reorder"
   /\ ValidOrderFor(Len(Old))
   /\ HasRepeat(resp.req.order)) =>
    /\ resp.ret = "True"
    /\ resp.wrote
    /\ Len(New) = Len(Old)
    /\ \A k \in 1..Len(New) : New[k] = Old[resp.req.order[k] + 1]
    /\ \A j, k \in 1..Len(New) :
         j # k /\ resp.req.order[j] = resp.req.order[k] =>
           Cardinality(PlacesOf(New, Old[resp.req.order[j] + 1])) >= 2
    /\ \E p \in 1..Len(Old) : \A k \in 1..Len(New) : resp.req.order[k] # p - 1
    /\ (\A p, q \in 1..Len(Old) : p # q => Old[p] # Old[q]) =>
         \E p \in 1..Len(Old) : PlacesOf(New, Old[p]) = {}

\* Three different records, the order 0, 0, 2: the first record is saved
\* twice and the second is gone.
C15_Witness ==
  /\ resp.req.op = "reorder"
  /\ resp.req.order = <<0, 0, 2>>
  /\ Len(Old) = 3
  /\ resp.ret = "True"
  /\ Cardinality(PlacesOf(New, Old[1])) = 2
  /\ PlacesOf(New, Old[2]) = {}
  /\ PlacesOf(New, Old[3]) = {3}

\* --------------------------------------------------------------- the page

\* C16: for every POST to / whose number field float() takes, the page shows
\* the product number * sqrt(2): the result block with its save form is there,
\* for every number, 0 included; the file is not changed by the request.
C16_ProductShown ==
  (/\ resp.req.op = "post"
   /\ ToFloat(resp.req.value).ok
   /\ ~resp.raised) =>
    /\ page.on
    /\ page.shown
    /\ page.result = TimesSqrt2(ToFloat(resp.req.value).v)
    /\ file = resp.pre

\* ------------------------------------------------------- groups, reordered

\* The records of one group lie side by side.
Contiguous(dims) ==
  \A i, j, k \in 1..Len(dims) :
    i < j /\ j < k /\ dims[i].group = dims[k].group =>
      dims[j].group = dims[i].group

\* C17: after a successful reorder_groups whose order repeats no index, the
\* records of each group are contiguous in the saved collection and its groups,
\* in the order of their first record, are the previous such list permuted by
\* the order. So a reorder_groups with the identity order that comes next
\* finds the groups contiguous, and then it saves the collection it loaded.
C17_GroupsContiguous ==
  /\ (/\ resp.req.op = "reorder_groups"
      /\ resp.ret = "True"
      /\ ~HasRepeat(resp.req.order)) =>
       /\ Contiguous(New)
       /\ FirstOccurrenceGroups(New) =
            [k \in 1..Len(resp.req.order) |->
               FirstOccurrenceGroups(Old)[resp.req.order[k] + 1]]
  /\ (/\ resp.req.op = "reorder_groups"
      /\ Old # <<>>
      /\ Contiguous(Old)
      /\ resp.req.order =
           [k \in 1..Len(FirstOccurrenceGroups(Old)) |-> k - 1]) =>
       /\ resp.ret = "True"
       /\ New = Old

\* The groups G1, G2, G1 reordered by [1, 0]: G2, G1, G1.
C17_Witness ==
  /\ resp.req.op = "reorder_groups"
  /\ resp.ret = "True"
  /\ resp.req.order = <<1, 0>>
  /\ Len(Old) = 3
  /\ ~Contiguous(Old)
  /\ Contiguous(New)
  /\ FirstOccurrenceGroups(New) =
       <<FirstOccurrenceGroups(Old)[2], FirstOccurrenceGroups(Old)[1]>>

\* The identity order on a collection with two contiguous groups.
C17_WitnessIdentity ==
  /\ resp.req.op = "reorder_groups"
  /\ resp.req.order = <<0, 1>>
  /\ Len(Old) = 3
  /\ Contiguous(Old)
  /\ resp.wrote
  /\ New = Old

\* C18: the index the page attaches to each displayed record (data-index, the
\* targets of its /delete, /rename and /update_group actions, the drag source
\* and drop target) is the record's position in the saved collection, so that
\* different displayed records carry different indices, also when two records
\* have the same name, value and group.
C18_IndexOnPage ==
  page.on =>
    /\ Len(page.items) = Len(LoadDimensions(file))
    /\ \A k \in DOMAIN page.items :
         LoadDimensions(file)[page.items[k].index + 1] = page.items[k].rec
    /\ \A j, k \in DOMAIN page.items :
         j # k => page.items[j].index # page.items[k].index

\* ------------------------------------------------- reordering keeps records

\* How often the record r is in s.
Count(s, r) == Cardinality({k \in 1..Len(s) : s[k] = r})

\* C19: no record is lost, duplicated or altered by reordering: after any
\* sequence of successful reorder_dimensions and reorder_groups calls whose
\* orders repeat no index, the saved collection is a permutation of the
\* collection before the sequence (the same length, each record as often).
C19_ReorderKeepsRecords ==
  /\ Len(LoadDimensions(file)) = Len(base)
  /\ \A k \in 1..Len(base) :
       Count(LoadDimensions(file), base[k]) = Count(base, base[k])

\* Three calls have run and the collection is not in the order it had
\* before them, nor grouped: its records are those of before, one of them
\* twice.
C19_Witness ==
  /\ calls = 3
  /\ Len(base) = 3
  /\ LoadDimensions(file) # base
  /\ base[1] = base[3]
  /\ base[1] # base[2]
  /\ LoadDimensions(file)[1] = base[2]
  /\ Count(LoadDimensions(file), base[1]) = 2

====
